---- MODULE Spec2Model ----
(***************************************************************************)
(* libruffle: the Android shim around the Ruffle Flash player.             *)
(*                                                                         *)
(* The model covers the input dispatcher of src/src/input.rs (descriptor   *)
(* table, per-port gamepad route tables, the global pointer flag) and the  *)
(* host entry points and worker loop of src/src/lib.rs (event queue,       *)
(* THREAD_HANDLE, start/stop, the per-frame tick and input poll).          *)
(*                                                                         *)
(* Keycodes are written by their ndk::event::Keycode variant name; the     *)
(* conversion to i32 is injective, so the name stands for the device code. *)
(* The player engine is external: the model records the PlayerEvents       *)
(* handed to Player::handle_event and the calls made on the player.        *)
(***************************************************************************)
EXTENDS Integers, Sequences, FiniteSets, TLC

(***************************************************************************)
(* Option<T> is a sequence of length at most one.                          *)
(***************************************************************************)
None == <<>>
Some(v) == <<v>>
IsSome(o) == Len(o) = 1
Unwrap(o) == o[1]

SeqRange(s) == {s[i] : i \in 1..Len(s)}

(***************************************************************************)
(* input.rs: constants of the libretro-style poll convention.              *)
(***************************************************************************)
RETRO_DEVICE_ID_JOYPAD_B == 0
RETRO_DEVICE_ID_JOYPAD_Y == 1
RETRO_DEVICE_ID_JOYPAD_SELECT == 2
RETRO_DEVICE_ID_JOYPAD_START == 3
RETRO_DEVICE_ID_JOYPAD_UP == 4
RETRO_DEVICE_ID_JOYPAD_DOWN == 5
RETRO_DEVICE_ID_JOYPAD_LEFT == 6
RETRO_DEVICE_ID_JOYPAD_RIGHT == 7
RETRO_DEVICE_ID_JOYPAD_A == 8
RETRO_DEVICE_ID_JOYPAD_X == 9
RETRO_DEVICE_ID_JOYPAD_L == 10
RETRO_DEVICE_ID_JOYPAD_R == 11

(***************************************************************************)
(* input.rs: KeyAction and its conversions.                                *)
(***************************************************************************)
KeyAction == {"Down", "Up"}

\* impl From<i32> for KeyAction: 0 is Down, anything else is Up.
KeyActionFromI32(action) == IF action = 0 THEN "Down" ELSE "Up"

\* impl From<bool> for KeyAction: true is Down.
KeyActionFromBool(is_down) == IF is_down THEN "Down" ELSE "Up"

InputSource == {"Keyboard", "Gamepad"}

\* KeyEvent::new: a physical-keyboard event, port 0.
KeyEvent_new(key, action) ==
  [port |-> 0, key |-> key, action |-> action, source |-> "Keyboard"]

\* KeyEvent::gamepad
KeyEvent_gamepad(port, key, action) ==
  [port |-> port, key |-> key, action |-> action, source |-> "Gamepad"]

\* TouchEvent::new
TouchEvent_new(x, y, action) == [x |-> x, y |-> y, action |-> action]

(***************************************************************************)
(* ruffle_core::events: the descriptor triple and the PlayerEvents the     *)
(* dispatcher emits.                                                       *)
(***************************************************************************)
Character(c) == [kind |-> "Character", value |-> c]
Named(n) == [kind |-> "Named", value |-> n]
LogicalUnknown == [kind |-> "Unknown", value |-> ""]

KeyDescriptor(physical, logical, location) ==
  [physical_key |-> physical, logical_key |-> logical, key_location |-> location]

KeyDown(desc) == [type |-> "KeyDown", key |-> desc]
KeyUp(desc) == [type |-> "KeyUp", key |-> desc]
MouseDown(x, y) == [type |-> "MouseDown", x |-> x, y |-> y, button |-> "Left"]
MouseUp(x, y) == [type |-> "MouseUp", x |-> x, y |-> y, button |-> "Left"]
MouseMove(x, y) == [type |-> "MouseMove", x |-> x, y |-> y]

\* Variant of KeyState::new whose entries start with the action Down.
KeyState_new_pressed(descriptor) ==
  [action |-> "Down", descriptor |-> descriptor]

\* KeyState::new: every entry starts with the action Up.
KeyState_new(descriptor) == [action |-> "Up", descriptor |-> descriptor]

(***************************************************************************)
(* input.rs: the supported key codes and their descriptors.                *)
(***************************************************************************)
KEYCODE_ARRAY ==
  << "Home", "Keycode0", "Keycode1", "Keycode2", "Keycode3", "Keycode4",
     "Keycode5", "Keycode6", "Keycode7", "Keycode8", "Keycode9", "DpadUp",
     "DpadDown", "DpadLeft", "DpadRight", "A", "B", "C",
     "D", "E", "F", "G", "H", "I",
     "J", "K", "L", "M", "N", "O",
     "P", "Q", "R", "S", "T", "U",
     "V", "W", "X", "Y", "Z", "Comma",
     "Period", "AltLeft", "AltRight", "ShiftLeft", "ShiftRight", "Tab",
     "Space", "Enter", "Del", "Grave", "Minus", "Equals",
     "LeftBracket", "RightBracket", "Backslash", "Semicolon", "Apostrophe", "Slash",
     "PageUp", "PageDown", "Escape", "ForwardDel", "CtrlLeft", "CtrlRight",
     "CapsLock", "ScrollLock", "MetaLeft", "MetaRight", "Sysrq", "Break",
     "MoveHome", "MoveEnd", "Insert", "F1", "F2", "F3",
     "F4", "F5", "F6", "F7", "F8", "F9",
     "F10", "F11", "F12", "NumLock", "Numpad0", "Numpad1",
     "Numpad2", "Numpad3", "Numpad4", "Numpad5", "Numpad6", "Numpad7",
     "Numpad8", "Numpad9", "NumpadDivide", "NumpadMultiply", "NumpadSubtract", "NumpadAdd",
     "NumpadDot", "NumpadComma", "NumpadEnter", "NumpadEquals", "MediaPlay", "MediaPause" >>

\* keycode_as_descriptor: one arm per key code, the default arm last.  The
\* characters of Grave and Apostrophe are written as their code points.
keycode_as_descriptor(keycode) ==
  CASE keycode = "Home" -> KeyDescriptor("Home", Named("Home"), "Standard")
    [] keycode = "Keycode0" -> KeyDescriptor("Digit0", Character("0"), "Standard")
    [] keycode = "Keycode1" -> KeyDescriptor("Digit1", Character("1"), "Standard")
    [] keycode = "Keycode2" -> KeyDescriptor("Digit2", Character("2"), "Standard")
    [] keycode = "Keycode3" -> KeyDescriptor("Digit3", Character("3"), "Standard")
    [] keycode = "Keycode4" -> KeyDescriptor("Digit4", Character("4"), "Standard")
    [] keycode = "Keycode5" -> KeyDescriptor("Digit5", Character("5"), "Standard")
    [] keycode = "Keycode6" -> KeyDescriptor("Digit6", Character("6"), "Standard")
    [] keycode = "Keycode7" -> KeyDescriptor("Digit7", Character("7"), "Standard")
    [] keycode = "Keycode8" -> KeyDescriptor("Digit8", Character("8"), "Standard")
    [] keycode = "Keycode9" -> KeyDescriptor("Digit9", Character("9"), "Standard")
    [] keycode = "DpadUp" -> KeyDescriptor("ArrowUp", Named("ArrowUp"), "Standard")
    [] keycode = "DpadDown" -> KeyDescriptor("ArrowDown", Named("ArrowDown"), "Standard")
    [] keycode = "DpadLeft" -> KeyDescriptor("ArrowLeft", Named("ArrowLeft"), "Standard")
    [] keycode = "DpadRight" -> KeyDescriptor("ArrowRight", Named("ArrowRight"), "Standard")
    [] keycode = "A" -> KeyDescriptor("KeyA", Character("a"), "Standard")
    [] keycode = "B" -> KeyDescriptor("KeyB", Character("b"), "Standard")
    [] keycode = "C" -> KeyDescriptor("KeyC", Character("c"), "Standard")
    [] keycode = "D" -> KeyDescriptor("KeyD", Character("d"), "Standard")
    [] keycode = "E" -> KeyDescriptor("KeyE", Character("e"), "Standard")
    [] keycode = "F" -> KeyDescriptor("KeyF", Character("f"), "Standard")
    [] keycode = "G" -> KeyDescriptor("KeyG", Character("g"), "Standard")
    [] keycode = "H" -> KeyDescriptor("KeyH", Character("h"), "Standard")
    [] keycode = "I" -> KeyDescriptor("KeyI", Character("i"), "Standard")
    [] keycode = "J" -> KeyDescriptor("KeyJ", Character("j"), "Standard")
    [] keycode = "K" -> KeyDescriptor("KeyK", Character("k"), "Standard")
    [] keycode = "L" -> KeyDescriptor("KeyL", Character("l"), "Standard")
    [] keycode = "M" -> KeyDescriptor("KeyM", Character("m"), "Standard")
    [] keycode = "N" -> KeyDescriptor("KeyN", Character("n"), "Standard")
    [] keycode = "O" -> KeyDescriptor("KeyO", Character("o"), "Standard")
    [] keycode = "P" -> KeyDescriptor("KeyP", Character("p"), "Standard")
    [] keycode = "Q" -> KeyDescriptor("KeyQ", Character("q"), "Standard")
    [] keycode = "R" -> KeyDescriptor("KeyR", Character("r"), "Standard")
    [] keycode = "S" -> KeyDescriptor("KeyS", Character("s"), "Standard")
    [] keycode = "T" -> KeyDescriptor("KeyT", Character("t"), "Standard")
    [] keycode = "U" -> KeyDescriptor("KeyU", Character("u"), "Standard")
    [] keycode = "V" -> KeyDescriptor("KeyV", Character("v"), "Standard")
    [] keycode = "W" -> KeyDescriptor("KeyW", Character("w"), "Standard")
    [] keycode = "X" -> KeyDescriptor("KeyX", Character("x"), "Standard")
    [] keycode = "Y" -> KeyDescriptor("KeyY", Character("y"), "Standard")
    [] keycode = "Z" -> KeyDescriptor("KeyZ", Character("z"), "Standard")
    [] keycode = "Comma" -> KeyDescriptor("Comma", Character(","), "Standard")
    [] keycode = "Period" -> KeyDescriptor("Period", Character("."), "Standard")
    [] keycode = "AltLeft" -> KeyDescriptor("AltLeft", Named("Alt"), "Left")
    [] keycode = "AltRight" -> KeyDescriptor("AltRight", Named("Alt"), "Right")
    [] keycode = "ShiftLeft" -> KeyDescriptor("ShiftLeft", Named("Shift"), "Left")
    [] keycode = "ShiftRight" -> KeyDescriptor("ShiftRight", Named("Shift"), "Right")
    [] keycode = "Tab" -> KeyDescriptor("Tab", Named("Tab"), "Standard")
    [] keycode = "Space" -> KeyDescriptor("Space", Character(" "), "Standard")
    [] keycode = "Enter" -> KeyDescriptor("Enter", Named("Enter"), "Standard")
    [] keycode = "Del" -> KeyDescriptor("Delete", Named("Delete"), "Standard")
    [] keycode = "Grave" -> KeyDescriptor("Unknown", Character("U+0060"), "Standard")
    [] keycode = "Minus" -> KeyDescriptor("Minus", Character("-"), "Standard")
    [] keycode = "Equals" -> KeyDescriptor("Equal", Character("="), "Standard")
    [] keycode = "LeftBracket" -> KeyDescriptor("BracketLeft", Character("["), "Standard")
    [] keycode = "RightBracket" -> KeyDescriptor("BracketRight", Character("]"), "Standard")
    [] keycode = "Backslash" -> KeyDescriptor("Backslash", Character("\\"), "Standard")
    [] keycode = "Semicolon" -> KeyDescriptor("Semicolon", Character(";"), "Standard")
    [] keycode = "Apostrophe" -> KeyDescriptor("Unknown", Character("U+0027"), "Standard")
    [] keycode = "Slash" -> KeyDescriptor("Slash", Character("/"), "Standard")
    [] keycode = "PageUp" -> KeyDescriptor("PageUp", Named("PageUp"), "Standard")
    [] keycode = "PageDown" -> KeyDescriptor("PageDown", Named("PageDown"), "Standard")
    [] keycode = "Escape" -> KeyDescriptor("Escape", Named("Escape"), "Standard")
    [] keycode = "ForwardDel" -> KeyDescriptor("Delete", Named("Delete"), "Standard")
    [] keycode = "CtrlLeft" -> KeyDescriptor("ControlLeft", Named("Control"), "Left")
    [] keycode = "CtrlRight" -> KeyDescriptor("ControlRight", Named("Control"), "Right")
    [] keycode = "CapsLock" -> KeyDescriptor("CapsLock", Named("CapsLock"), "Standard")
    [] keycode = "ScrollLock" -> KeyDescriptor("ScrollLock", Named("ScrollLock"), "Standard")
    [] keycode = "MetaLeft" -> KeyDescriptor("ContextMenu", Named("ContextMenu"), "Left")
    [] keycode = "MetaRight" -> KeyDescriptor("ContextMenu", Named("ContextMenu"), "Right")
    [] keycode = "Sysrq" -> KeyDescriptor("PrintScreen", Named("PrintScreen"), "Standard")
    [] keycode = "Break" -> KeyDescriptor("Pause", Named("Pause"), "Standard")
    [] keycode = "MoveHome" -> KeyDescriptor("Home", Named("Home"), "Standard")
    [] keycode = "MoveEnd" -> KeyDescriptor("End", Named("End"), "Standard")
    [] keycode = "Insert" -> KeyDescriptor("Insert", Named("Insert"), "Standard")
    [] keycode = "F1" -> KeyDescriptor("F1", Named("F1"), "Standard")
    [] keycode = "F2" -> KeyDescriptor("F2", Named("F2"), "Standard")
    [] keycode = "F3" -> KeyDescriptor("F3", Named("F3"), "Standard")
    [] keycode = "F4" -> KeyDescriptor("F4", Named("F4"), "Standard")
    [] keycode = "F5" -> KeyDescriptor("F5", Named("F5"), "Standard")
    [] keycode = "F6" -> KeyDescriptor("F6", Named("F6"), "Standard")
    [] keycode = "F7" -> KeyDescriptor("F7", Named("F7"), "Standard")
    [] keycode = "F8" -> KeyDescriptor("F8", Named("F8"), "Standard")
    [] keycode = "F9" -> KeyDescriptor("F9", Named("F9"), "Standard")
    [] keycode = "F10" -> KeyDescriptor("F10", Named("F10"), "Standard")
    [] keycode = "F11" -> KeyDescriptor("F11", Named("F11"), "Standard")
    [] keycode = "F12" -> KeyDescriptor("F12", Named("F12"), "Standard")
    [] keycode = "NumLock" -> KeyDescriptor("NumLock", Named("NumLock"), "Numpad")
    [] keycode = "Numpad0" -> KeyDescriptor("Numpad0", Character("0"), "Numpad")
    [] keycode = "Numpad1" -> KeyDescriptor("Numpad1", Character("1"), "Numpad")
    [] keycode = "Numpad2" -> KeyDescriptor("Numpad2", Character("2"), "Numpad")
    [] keycode = "Numpad3" -> KeyDescriptor("Numpad3", Character("3"), "Numpad")
    [] keycode = "Numpad4" -> KeyDescriptor("Numpad4", Character("4"), "Numpad")
    [] keycode = "Numpad5" -> KeyDescriptor("Numpad5", Character("5"), "Numpad")
    [] keycode = "Numpad6" -> KeyDescriptor("Numpad6", Character("6"), "Numpad")
    [] keycode = "Numpad7" -> KeyDescriptor("Numpad7", Character("7"), "Numpad")
    [] keycode = "Numpad8" -> KeyDescriptor("Numpad8", Character("8"), "Numpad")
    [] keycode = "Numpad9" -> KeyDescriptor("Numpad9", Character("9"), "Numpad")
    [] keycode = "NumpadDivide" -> KeyDescriptor("NumpadDivide", Character("/"), "Numpad")
    [] keycode = "NumpadMultiply" -> KeyDescriptor("NumpadMultiply", Character("*"), "Numpad")
    [] keycode = "NumpadSubtract" -> KeyDescriptor("NumpadSubtract", Character("-"), "Numpad")
    [] keycode = "NumpadAdd" -> KeyDescriptor("NumpadAdd", Character("+"), "Numpad")
    [] keycode = "NumpadDot" -> KeyDescriptor("Unknown", Character("."), "Numpad")
    [] keycode = "NumpadComma" -> KeyDescriptor("NumpadComma", Character(","), "Numpad")
    [] keycode = "NumpadEnter" -> KeyDescriptor("NumpadEnter", Named("Enter"), "Numpad")
    [] keycode = "NumpadEquals" -> KeyDescriptor("Unknown", Character("="), "Numpad")
    [] keycode = "MediaPlay" -> KeyDescriptor("Unknown", Named("Play"), "Standard")
    [] keycode = "MediaPause" -> KeyDescriptor("Unknown", Named("Pause"), "Standard")
    [] OTHER -> KeyDescriptor("Unknown", LogicalUnknown, "Standard")

\* Variant of the descriptor table that also converts a code the array does
\* not list, which falls to the default arm of keycode_as_descriptor.
KEYCODE_DESCRIPTORS_with_unlisted ==
  [keycode \in SeqRange(KEYCODE_ARRAY) \cup {"ButtonL2"} |->
     keycode_as_descriptor(keycode)]

\* static KEYCODE_DESCRIPTORS: one descriptor per element of KEYCODE_ARRAY.
KEYCODE_DESCRIPTORS ==
  [keycode \in SeqRange(KEYCODE_ARRAY) |-> keycode_as_descriptor(keycode)]

\* InputDispatcher::get_descriptor: Option<KeyDescriptor>
get_descriptor(keycode) ==
  IF keycode \in DOMAIN KEYCODE_DESCRIPTORS
    THEN Some(KEYCODE_DESCRIPTORS[keycode])
    ELSE None

\* HashMap::insert: a later insert under the same key replaces the entry.
MapInsert(map, key, value) ==
  [k \in (DOMAIN map) \cup {key} |-> IF k = key THEN value ELSE map[k]]

\* build_route_table: the (device code, keyboard key) pairs in the order the
\* function inserts them.  The "L2" and "R2" inserts are made under the
\* codes of ButtonL1 and ButtonR1, as in the source.
RouteInserts(port) ==
  IF port = 1
    THEN << <<"DpadLeft", "A">>, <<"DpadRight", "D">>, <<"DpadUp", "W">>,
            <<"DpadDown", "S">>, <<"ButtonA", "G">>, <<"ButtonB", "H">>,
            <<"ButtonX", "T">>, <<"ButtonY", "Y">>, <<"ButtonSelect", "Tab">>,
            <<"ButtonStart", "Enter">>, <<"ButtonL1", "Keycode7">>,
            <<"ButtonR1", "Keycode8">>, <<"ButtonL1", "Keycode9">>,
            <<"ButtonR1", "Keycode0">> >>
    ELSE << <<"DpadLeft", "DpadLeft">>, <<"DpadRight", "DpadRight">>,
            <<"DpadUp", "DpadUp">>, <<"DpadDown", "DpadDown">>,
            <<"ButtonA", "Comma">>, <<"ButtonB", "Period">>,
            <<"ButtonX", "K">>, <<"ButtonY", "L">>, <<"ButtonSelect", "Tab">>,
            <<"ButtonStart", "Enter">>, <<"ButtonL1", "Keycode1">>,
            <<"ButtonR1", "Keycode2">>, <<"ButtonL1", "Keycode3">>,
            <<"ButtonR1", "Keycode4">> >>

RECURSIVE InsertAll(_, _, _)
InsertAll(map, inserts, i) ==
  IF i > Len(inserts)
    THEN map
    ELSE InsertAll(MapInsert(map, inserts[i][1],
                             KeyState_new(Unwrap(get_descriptor(inserts[i][2])))),
                   inserts, i + 1)

\* InputDispatcher::build_route_table
build_route_table(port) == InsertAll(<<>>, RouteInserts(port), 1)

(***************************************************************************)
(* input.rs: the dispatcher.  Each operator returns the new stored state   *)
(* and the sequence of PlayerEvents handed to the player.                  *)
(***************************************************************************)

\* Variant of the table selection that ignores the port.
select_route_table_port0(event) == 0

\* dispatch_key_event, table selection: port 1 uses P1, every other port P0.
select_route_table(event) == IF event.port = 1 THEN 1 ELSE 0

\* Variant of the gamepad branch that emits on an edge but never stores the
\* new action.
gamepad_branch_no_store(event, route_table) ==
  IF event.key \in DOMAIN route_table
    THEN LET key_state == route_table[event.key] IN
         IF key_state.action # event.action
           THEN [table |-> route_table,
                 out |-> IF event.action = "Down"
                           THEN <<KeyDown(key_state.descriptor)>>
                           ELSE <<KeyUp(key_state.descriptor)>>]
           ELSE [table |-> route_table, out |-> <<>>]
    ELSE [table |-> route_table, out |-> <<>>]

\* Variant of the gamepad branch that emits and stores on every event of a
\* routed code, also when the action repeats the stored one.
gamepad_branch_every_event(event, route_table) ==
  IF event.key \in DOMAIN route_table
    THEN [table |-> [route_table EXCEPT ![event.key].action = event.action],
          out |-> IF event.action = "Down"
                    THEN <<KeyDown(route_table[event.key].descriptor)>>
                    ELSE <<KeyUp(route_table[event.key].descriptor)>>]
    ELSE [table |-> route_table, out |-> <<>>]

\* dispatch_key_event, gamepad branch on the selected table.
gamepad_branch(event, route_table) ==
  IF event.key \in DOMAIN route_table
    THEN LET key_state == route_table[event.key] IN
         IF key_state.action # event.action
           THEN [table |-> [route_table EXCEPT ![event.key].action = event.action],
                 out |-> IF event.action = "Down"
                           THEN <<KeyDown(key_state.descriptor)>>
                           ELSE <<KeyUp(key_state.descriptor)>>]
           ELSE [table |-> route_table, out |-> <<>>]
    ELSE [table |-> route_table, out |-> <<>>]

\* Variant of the keyboard branch that skips the table lookup and converts
\* the code directly.
keyboard_branch_unchecked(event) ==
  IF event.action = "Down"
    THEN <<KeyDown(keycode_as_descriptor(event.key))>>
    ELSE <<KeyUp(keycode_as_descriptor(event.key))>>

\* Variant of the keyboard branch that reports every event as a key-down.
keyboard_branch_always_down(event) ==
  IF event.key \in DOMAIN KEYCODE_DESCRIPTORS
    THEN <<KeyDown(KEYCODE_DESCRIPTORS[event.key])>>
    ELSE <<>>

\* dispatch_key_event, keyboard branch: no stored state is consulted.
keyboard_branch(event) ==
  IF event.key \in DOMAIN KEYCODE_DESCRIPTORS
    THEN IF event.action = "Down"
           THEN <<KeyDown(KEYCODE_DESCRIPTORS[event.key])>>
           ELSE <<KeyUp(KEYCODE_DESCRIPTORS[event.key])>>
    ELSE <<>>

\* InputDispatcher::dispatch_key_event
dispatch_key_event(event, p0, p1) ==
  IF event.source = "Gamepad"
    THEN LET sel == select_route_table(event)
             r == gamepad_branch(event, IF sel = 1 THEN p1 ELSE p0)
         IN [p0 |-> IF sel = 1 THEN p0 ELSE r.table,
             p1 |-> IF sel = 1 THEN r.table ELSE p1,
             out |-> r.out]
    ELSE [p0 |-> p0, p1 |-> p1, out |-> keyboard_branch(event)]

\* Variant of the touch dispatch that reports a move whenever the flag and
\* the event agree, also when both are released.
dispatch_touch_event_move_on_idle(event, pointer_action) ==
  LET current_action == KeyActionFromBool(pointer_action) IN
  IF current_action # event.action
    THEN IF event.action = "Down"
           THEN [pointer |-> TRUE, out |-> <<MouseDown(event.x, event.y)>>]
           ELSE [pointer |-> FALSE, out |-> <<MouseUp(event.x, event.y)>>]
    ELSE [pointer |-> pointer_action, out |-> <<MouseMove(event.x, event.y)>>]

\* Variant of the touch dispatch that emits the button events but never
\* stores the pressed flag.
dispatch_touch_event_no_store(event, pointer_action) ==
  LET current_action == KeyActionFromBool(pointer_action) IN
  IF current_action # event.action
    THEN IF event.action = "Down"
           THEN [pointer |-> pointer_action,
                 out |-> <<MouseDown(event.x, event.y)>>]
           ELSE [pointer |-> pointer_action,
                 out |-> <<MouseUp(event.x, event.y)>>]
    ELSE IF event.action = "Down"
           THEN [pointer |-> pointer_action,
                 out |-> <<MouseMove(event.x, event.y)>>]
           ELSE [pointer |-> pointer_action, out |-> <<>>]

\* InputDispatcher::dispatch_touch_event
dispatch_touch_event(event, pointer_action) ==
  LET current_action == KeyActionFromBool(pointer_action) IN
  IF current_action # event.action
    THEN IF event.action = "Down"
           THEN [pointer |-> TRUE, out |-> <<MouseDown(event.x, event.y)>>]
           ELSE [pointer |-> FALSE, out |-> <<MouseUp(event.x, event.y)>>]
    ELSE IF event.action = "Down"
           THEN [pointer |-> pointer_action, out |-> <<MouseMove(event.x, event.y)>>]
           ELSE [pointer |-> pointer_action, out |-> <<>>]

(***************************************************************************)
(* util.rs: Properties, a lazily created map of typed values.              *)
(***************************************************************************)
TypedValue_F(v) == <<"F", v>>

\* Properties::new: data_opt is None.
Properties_new == None

\* Properties::put
Properties_put(props, key, v) ==
  LET data == IF IsSome(props) THEN Unwrap(props) ELSE <<>> IN
  Some(MapInsert(data, key, v))

\* Properties::f: the float stored under key, or def_value.
Properties_f(props, key, def_value) ==
  IF ~IsSome(props)
    THEN def_value
    ELSE IF key \in DOMAIN Unwrap(props) /\ Unwrap(props)[key][1] = "F"
           THEN Unwrap(props)[key][2]
           ELSE def_value

PROP_DISPLAY_SCALED_DENSITY == "ruffle_scale_factor"

(***************************************************************************)
(* Bounds of the model and the input sets the actions draw from.           *)
(***************************************************************************)
\* Largest coordinate of a directly dispatched touch event.
MaxCoord == 1

\* Most events waiting in the channel (the channel itself is unbounded).
MaxQueue == 2

\* Most worker threads ever spawned, i.e. most calls of em_start.
MaxWorkers == 2

\* Largest viewport width / height of the rescaled pointer coordinates.
MaxDim == 3

\* Latest reading of the monotonic clock, in microseconds since the process
\* started.
MaxTime == 2

\* Ports of directly dispatched gamepad events.
DispatchPorts == {0, 1}

\* Device codes of dispatched key events: routed and in the descriptor table
\* (DpadLeft), routed only (ButtonA), descriptor table only (A), in neither
\* (ButtonL2).
DispatchKeys == {"DpadLeft", "ButtonA", "A", "ButtonL2"}

DispatchKeyEvents ==
  {KeyEvent_gamepad(port, key, action) :
      port \in DispatchPorts, key \in DispatchKeys, action \in KeyAction}
  \cup {KeyEvent_new(key, action) : key \in DispatchKeys, action \in KeyAction}

DispatchTouchEvents ==
  {TouchEvent_new(x, y, action) :
      x \in 0..MaxCoord, y \in 0..MaxCoord, action \in KeyAction}

\* Host threads calling the entry points.
Hosts == {"h1", "h2"}

Workers == 1..MaxWorkers

\* Sizes of the windows handed to em_attach_surface / em_adjust_surface_size.
WindowSizes == {<<4, 2>>}
AdjustSizes == {<<2, 4>>}

\* android.view.KeyEvent values seen by em_dispatch_keyboard_event:
\* getKeyCode() as a Keycode, getAction() with ACTION_DOWN = 0, ACTION_UP = 1.
KeyboardKeys == {"A"}
KeyboardActions == {0, 1}

\* Keys and values passed to em_set_prop.
PropKeys == {PROP_DISPLAY_SCALED_DENSITY, "other"}
PropValues == {2}

\* Joypad masks returned by onNativePollInput: nothing pressed, A pressed.
QuietMask == 0
PollMasks == {QuietMask, 2 ^ RETRO_DEVICE_ID_JOYPAD_A}

\* Raw pointer samples (x, y) returned by onNativePollInput.
PollPointers == {<<-32767, 32767>>}

(***************************************************************************)
(* State.                                                                  *)
(***************************************************************************)
VARIABLES
  P0_ROUTE_TABLE,   \* input.rs static: device code -> KeyState, port 0
  P1_ROUTE_TABLE,   \* input.rs static: device code -> KeyState, port 1
  POINTER_ACTION,   \* input.rs static: the global pointer-pressed flag
  queue,            \* lib.rs TX/RX: the events in the channel, oldest first
  THREAD_HANDLE,    \* lib.rs static: Option<JoinHandle>, as a worker id
  handleGuard,      \* the host thread holding the THREAD_HANDLE mutex
  PROPS,            \* lib.rs static: Properties
  hostPc,           \* per host thread: where it is inside an entry point
  hostHandle,       \* per host thread: the JoinHandle it holds locally
  workers,          \* per worker thread: status and the closure's locals
  spawned,          \* number of worker threads spawned so far
  polled,           \* the joypad mask polled by the latest frame, -1 if none
  emitted,          \* PlayerEvents handed to the player by the latest step
  lastOp,           \* the latest step: operation and its arguments
  prevOp,           \* the dispatcher call before the latest one
  prevEmitted,      \* the PlayerEvents of that earlier dispatcher call
  lastDispatched,   \* per port and routed code: the action last dispatched
                    \* by a direct dispatch_key_event call
  lastKeyEmitted,   \* per port and routed code: the type of the last event a
                    \* recorded dispatch_key_event call emitted for it
  lastButtonEmitted,\* the type of the last mouse button event a recorded
                    \* dispatch_touch_event call emitted
  clock,            \* Instant::now(): the monotonic clock, in microseconds
  prev_frame_time,  \* per worker thread: the closure's local of that name
  created_at,       \* per worker thread: the clock when its player was built
  ticked            \* per worker thread: sum of the durations passed to tick

inputVars == <<P0_ROUTE_TABLE, P1_ROUTE_TABLE, POINTER_ACTION>>
progVars == <<queue, THREAD_HANDLE, handleGuard, PROPS, hostPc, hostHandle,
              workers, spawned, polled>>
histVars == <<emitted, lastOp, prevOp, prevEmitted, lastDispatched>>
emitVars == <<lastKeyEmitted, lastButtonEmitted>>
timeVars == <<clock, prev_frame_time, created_at, ticked>>
vars == <<inputVars, progVars, histVars, emitVars, timeVars>>

NoOp == [op |-> "none"]
HostOp == [op |-> "host"]
NoHandle == 0
NoMask == -1
NoTime == -1
NoEvent == "None"

\* A worker thread that was not spawned, and the closure's locals at spawn.
NoWorker ==
  [status |-> "unspawned", player_ref |-> None, dpi_scale_factor |-> 1,
   builds |-> 0]

\* The table dispatch_key_event consults for an event, as a set of codes.
ApplicableCodes(event) ==
  IF event.source = "Gamepad"
    THEN IF event.port = 1 THEN DOMAIN P1_ROUTE_TABLE ELSE DOMAIN P0_ROUTE_TABLE
    ELSE DOMAIN KEYCODE_DESCRIPTORS

\* The action stored for a gamepad event's entry, "Absent" when unrouted.
StoredAction(event) ==
  LET table == IF event.port = 1 THEN P1_ROUTE_TABLE ELSE P0_ROUTE_TABLE IN
  IF event.key \in DOMAIN table THEN table[event.key].action ELSE "Absent"

\* Ghost update: the action last dispatched to (port, code).
NoteDispatched(ghost, event) ==
  IF /\ event.source = "Gamepad"
     /\ event.port \in DOMAIN ghost
     /\ event.key \in DOMAIN ghost[event.port]
    THEN [ghost EXCEPT ![event.port][event.key] = event.action]
    ELSE ghost

\* Ghost update: the type of the event a gamepad dispatch emitted for
\* (port, code), if it emitted one.
NoteKeyEmitted(ghost, event, out) ==
  IF /\ out # <<>>
     /\ event.source = "Gamepad"
     /\ event.key \in DOMAIN ghost[IF event.port = 1 THEN 1 ELSE 0]
    THEN [ghost EXCEPT ![IF event.port = 1 THEN 1 ELSE 0][event.key] =
                          out[Len(out)].type]
    ELSE ghost

\* Ghost update: the type of the mouse button event a pointer dispatch
\* emitted, if it emitted one.
NoteButtonEmitted(ghost, out) ==
  IF out # <<>> /\ out[Len(out)].type \in {"MouseDown", "MouseUp"}
    THEN out[Len(out)].type
    ELSE ghost

Init ==
  /\ P0_ROUTE_TABLE = build_route_table(0)
  /\ P1_ROUTE_TABLE = build_route_table(1)
  /\ POINTER_ACTION = FALSE
  /\ queue = <<>>
  /\ THREAD_HANDLE = NoHandle
  /\ handleGuard = "free"
  /\ PROPS = Properties_new
  /\ hostPc = [h \in Hosts |-> "idle"]
  /\ hostHandle = [h \in Hosts |-> NoHandle]
  /\ workers = [w \in Workers |-> NoWorker]
  /\ spawned = 0
  /\ polled = NoMask
  /\ emitted = <<>>
  /\ lastOp = NoOp
  /\ prevOp = NoOp
  /\ prevEmitted = <<>>
  /\ lastDispatched =
       [port \in {0, 1} |->
          [code \in DOMAIN build_route_table(port) |-> "Up"]]
  /\ lastKeyEmitted =
       [port \in {0, 1} |->
          [code \in DOMAIN build_route_table(port) |-> NoEvent]]
  /\ lastButtonEmitted = NoEvent
  /\ clock = 0
  /\ prev_frame_time = [w \in Workers |-> 0]
  /\ created_at = [w \in Workers |-> NoTime]
  /\ ticked = [w \in Workers |-> 0]

(***************************************************************************)
(* Direct calls of the dispatcher's public functions.                      *)
(***************************************************************************)
DispatchKey(event) ==
  LET r == dispatch_key_event(event, P0_ROUTE_TABLE, P1_ROUTE_TABLE) IN
  /\ P0_ROUTE_TABLE' = r.p0
  /\ P1_ROUTE_TABLE' = r.p1
  /\ emitted' = r.out
  /\ lastOp' = [op |-> "dispatch_key_event", event |-> event,
                before |-> IF event.source = "Gamepad"
                             THEN StoredAction(event) ELSE "Absent"]
  /\ prevOp' = lastOp
  /\ prevEmitted' = emitted
  /\ lastDispatched' = NoteDispatched(lastDispatched, event)
  /\ UNCHANGED <<POINTER_ACTION, progVars, emitVars, timeVars>>

DispatchTouch(event) ==
  LET r == dispatch_touch_event(event, POINTER_ACTION) IN
  /\ POINTER_ACTION' = r.pointer
  /\ emitted' = r.out
  /\ lastOp' = [op |-> "dispatch_touch_event", event |-> event,
                before |-> POINTER_ACTION]
  /\ prevOp' = lastOp
  /\ prevEmitted' = emitted
  /\ UNCHANGED <<P0_ROUTE_TABLE, P1_ROUTE_TABLE, lastDispatched, progVars,
                 emitVars, timeVars>>

DispatchNext ==
  \/ \E event \in DispatchKeyEvents : DispatchKey(event)
  \/ \E event \in DispatchTouchEvents : DispatchTouch(event)

DispatchSpec == Init /\ [][DispatchNext]_vars

(***************************************************************************)
(* Direct calls of the dispatcher with a record of what each routed code   *)
(* and the pointer emitted last: one button on either port and the         *)
(* pointer at one position.                                                *)
(***************************************************************************)
RecordedKeyEvents ==
  { KeyEvent_gamepad(port, key, action) :
      port \in DispatchPorts, key \in {"ButtonA"}, action \in KeyAction }

RecordedTouchEvents == { TouchEvent_new(0, 0, action) : action \in KeyAction }

RecordedKey(event) ==
  LET r == dispatch_key_event(event, P0_ROUTE_TABLE, P1_ROUTE_TABLE) IN
  /\ P0_ROUTE_TABLE' = r.p0
  /\ P1_ROUTE_TABLE' = r.p1
  /\ emitted' = r.out
  /\ lastOp' = [op |-> "dispatch_key_event", event |-> event,
                before |-> StoredAction(event)]
  /\ prevOp' = lastOp
  /\ prevEmitted' = emitted
  /\ lastDispatched' = NoteDispatched(lastDispatched, event)
  /\ lastKeyEmitted' = NoteKeyEmitted(lastKeyEmitted, event, r.out)
  /\ UNCHANGED <<POINTER_ACTION, progVars, lastButtonEmitted, timeVars>>

RecordedTouch(event) ==
  LET r == dispatch_touch_event(event, POINTER_ACTION) IN
  /\ POINTER_ACTION' = r.pointer
  /\ emitted' = r.out
  /\ lastOp' = [op |-> "dispatch_touch_event", event |-> event,
                before |-> POINTER_ACTION]
  /\ prevOp' = lastOp
  /\ prevEmitted' = emitted
  /\ lastButtonEmitted' = NoteButtonEmitted(lastButtonEmitted, r.out)
  /\ UNCHANGED <<P0_ROUTE_TABLE, P1_ROUTE_TABLE, lastDispatched, progVars,
                 lastKeyEmitted, timeVars>>

RecordedNext ==
  \/ \E event \in RecordedKeyEvents : RecordedKey(event)
  \/ \E event \in RecordedTouchEvents : RecordedTouch(event)

RecordedSpec == Init /\ [][RecordedNext]_vars

(***************************************************************************)
(* lib.rs: the events of the channel.                                      *)
(***************************************************************************)
AttachSurface(window) == [type |-> "AttachSurface", window |-> window]
AdjustSurfaceSize(vw, vh) == [type |-> "AdjustSurfaceSize", vw |-> vw, vh |-> vh]
DetachSurface == [type |-> "DetachSurface"]
HandleKeyEvent(event) == [type |-> "HandleKeyEvent", event |-> event]
Kill == [type |-> "Kill"]

\* Variant of send_event that puts the event at the front of the channel.
send_event_front(q, event) == <<event>> \o q

\* send_event: append to the unbounded mpsc channel.
send_event(q, event) == Append(q, event)

\* What a host step leaves alone besides the variables it names.
HostFrame ==
  /\ lastOp' = HostOp
  /\ emitted' = <<>>
  /\ UNCHANGED <<inputVars, polled, prevOp, prevEmitted, lastDispatched,
                 emitVars, timeVars>>

\* An entry point that only enqueues one event and returns; it can run on any
\* host thread at any time, so it carries no thread position.
Enqueue(event) ==
  /\ Len(queue) < MaxQueue
  /\ queue' = send_event(queue, event)
  /\ HostFrame
  /\ UNCHANGED <<THREAD_HANDLE, handleGuard, PROPS, hostPc, hostHandle,
                 workers, spawned>>

(***************************************************************************)
(* lib.rs: host entry points.                                              *)
(***************************************************************************)
em_attach_surface(window) == Enqueue(AttachSurface(window))

em_adjust_surface_size(vw, vh) == Enqueue(AdjustSurfaceSize(vw, vh))

\* Variant of em_detach_surface that pauses the players itself instead of
\* sending an event.
em_detach_surface_direct ==
  /\ workers' = [w \in Workers |->
       IF IsSome(workers[w].player_ref)
         THEN [workers[w] EXCEPT !.player_ref =
                 Some([Unwrap(workers[w].player_ref) EXCEPT !.is_playing = FALSE])]
         ELSE workers[w]]
  /\ HostFrame
  /\ UNCHANGED <<queue, THREAD_HANDLE, handleGuard, PROPS, hostPc, hostHandle,
                 spawned>>

em_detach_surface == Enqueue(DetachSurface)

em_dispatch_keyboard_event(key, action) ==
  Enqueue(HandleKeyEvent(KeyEvent_new(key, KeyActionFromI32(action))))

\* Variant of em_set_prop that stores the value under whatever key it is given.
em_set_prop_any_key(key, val) ==
  /\ PROPS' = Properties_put(PROPS, key, TypedValue_F(val))
  /\ HostFrame
  /\ UNCHANGED <<queue, THREAD_HANDLE, handleGuard, hostPc, hostHandle,
                 workers, spawned>>

\* em_set_prop: only the scale-factor key is stored.
em_set_prop(key, val) ==
  /\ PROPS' = IF key = PROP_DISPLAY_SCALED_DENSITY
                THEN Properties_put(PROPS, key, TypedValue_F(val))
                ELSE PROPS
  /\ HostFrame
  /\ UNCHANGED <<queue, THREAD_HANDLE, handleGuard, hostPc, hostHandle,
                 workers, spawned>>

\* em_start, first half: thread::spawn returns the JoinHandle of a new worker.
em_start_spawn(h) ==
  /\ hostPc[h] = "idle"
  /\ spawned < MaxWorkers
  /\ spawned' = spawned + 1
  /\ workers' = [workers EXCEPT ![spawned + 1].status = "starting"]
  /\ hostPc' = [hostPc EXCEPT ![h] = "start_store"]
  /\ hostHandle' = [hostHandle EXCEPT ![h] = spawned + 1]
  /\ HostFrame
  /\ UNCHANGED <<queue, THREAD_HANDLE, handleGuard, PROPS>>

\* em_start, second half: *THREAD_HANDLE.lock() = Some(handle); the handle
\* stored before, if any, is dropped (its thread is detached, not stopped).
em_start_store(h) ==
  /\ hostPc[h] = "start_store"
  /\ handleGuard = "free"
  /\ THREAD_HANDLE' = hostHandle[h]
  /\ hostPc' = [hostPc EXCEPT ![h] = "idle"]
  /\ hostHandle' = [hostHandle EXCEPT ![h] = NoHandle]
  /\ HostFrame
  /\ UNCHANGED <<queue, handleGuard, PROPS, workers, spawned>>

\* em_stop, first step: send_event(Kill).
em_stop_send(h) ==
  /\ hostPc[h] = "idle"
  /\ Len(queue) < MaxQueue
  /\ queue' = send_event(queue, Kill)
  /\ hostPc' = [hostPc EXCEPT ![h] = "stop_lock"]
  /\ HostFrame
  /\ UNCHANGED <<THREAD_HANDLE, handleGuard, PROPS, hostHandle, workers, spawned>>

\* em_stop, second step: lock THREAD_HANDLE and take() the handle.  Without a
\* handle the call returns; with one it goes on to join, keeping the guard.
em_stop_lock(h) ==
  /\ hostPc[h] = "stop_lock"
  /\ handleGuard = "free"
  /\ IF THREAD_HANDLE = NoHandle
       THEN /\ hostPc' = [hostPc EXCEPT ![h] = "idle"]
            /\ UNCHANGED <<THREAD_HANDLE, handleGuard, hostHandle>>
       ELSE /\ hostPc' = [hostPc EXCEPT ![h] = "stop_join"]
            /\ hostHandle' = [hostHandle EXCEPT ![h] = THREAD_HANDLE]
            /\ THREAD_HANDLE' = NoHandle
            /\ handleGuard' = h
  /\ HostFrame
  /\ UNCHANGED <<queue, PROPS, workers, spawned>>

\* em_stop, third step: handle.join() returns once that worker thread has
\* ended (normally or by a panic); the guard is dropped on return.
em_stop_join(h) ==
  /\ hostPc[h] = "stop_join"
  /\ workers[hostHandle[h]].status \in {"exited", "panicked"}
  /\ hostPc' = [hostPc EXCEPT ![h] = "idle"]
  /\ hostHandle' = [hostHandle EXCEPT ![h] = NoHandle]
  /\ handleGuard' = "free"
  /\ HostFrame
  /\ UNCHANGED <<queue, THREAD_HANDLE, PROPS, workers, spawned>>

(***************************************************************************)
(* lib.rs: the worker thread.                                              *)
(***************************************************************************)

\* Worker startup: the closure's locals; prev_frame_time is the clock at
\* startup, and the scale factor is read from PROPS once, here.
worker_init(w) ==
  /\ workers[w].status = "starting"
  /\ workers' = [workers EXCEPT
       ![w].status = "looping",
       ![w].player_ref = None,
       ![w].dpi_scale_factor =
          Properties_f(PROPS, PROP_DISPLAY_SCALED_DENSITY, 1)]
  /\ prev_frame_time' = [prev_frame_time EXCEPT ![w] = clock]
  /\ created_at' = [created_at EXCEPT ![w] = NoTime]
  /\ ticked' = [ticked EXCEPT ![w] = 0]
  /\ lastOp' = [op |-> "worker_init", w |-> w]
  /\ emitted' = <<>>
  /\ UNCHANGED <<inputVars, queue, THREAD_HANDLE, handleGuard, PROPS, hostPc,
                 hostHandle, spawned, polled, prevOp, prevEmitted,
                 lastDispatched, emitVars, clock>>

\* What the handlers return: the worker's locals, the route tables, the
\* PlayerEvents emitted, and whether a player was built / a surface recreated.
Handled(ws, p0, p1, out, built, recreated) ==
  [ws |-> ws, p0 |-> p0, p1 |-> p1, out |-> out, built |-> built,
   recreated |-> recreated]

\* Variant of the attach handler that builds a player on every attach.
attach_surface_handler_rebuild(ws, window, construct_ok) ==
  [ws EXCEPT
     !.player_ref = Some([is_playing |-> TRUE, viewport |-> window,
                          scale_factor |-> ws.dpi_scale_factor,
                          surface |-> window]),
     !.builds = ws.builds + 1]

\* Variant of the attach handler that logs a construction failure and goes
\* on without a player, so that a later attach event tries again.
attach_surface_handler_retry(ws, window, construct_ok) ==
  IF IsSome(ws.player_ref)
    THEN [ws EXCEPT !.player_ref =
            Some([Unwrap(ws.player_ref) EXCEPT !.surface = window,
                                               !.is_playing = TRUE])]
    ELSE IF construct_ok
           THEN [ws EXCEPT
                   !.player_ref =
                      Some([is_playing |-> TRUE, viewport |-> window,
                            scale_factor |-> ws.dpi_scale_factor,
                            surface |-> window]),
                   !.builds = ws.builds + 1]
           ELSE ws

\* RuffleEvent::AttachSurface: recreate the surface of the existing player,
\* or load the movie and build renderer and player; a construction failure
\* unwraps an Err and the worker thread panics.
attach_surface_handler(ws, window, construct_ok) ==
  IF IsSome(ws.player_ref)
    THEN [ws EXCEPT !.player_ref =
            Some([Unwrap(ws.player_ref) EXCEPT !.surface = window,
                                               !.is_playing = TRUE])]
    ELSE IF construct_ok
           THEN [ws EXCEPT
                   !.player_ref =
                      Some([is_playing |-> TRUE, viewport |-> window,
                            scale_factor |-> ws.dpi_scale_factor,
                            surface |-> window]),
                   !.builds = ws.builds + 1]
           ELSE [NoWorker EXCEPT !.status = "panicked"]

\* RuffleEvent::AdjustSurfaceSize
adjust_surface_size_handler(ws, vw, vh) ==
  IF IsSome(ws.player_ref)
    THEN [ws EXCEPT !.player_ref =
            Some([Unwrap(ws.player_ref) EXCEPT
                    !.viewport = <<vw, vh>>,
                    !.scale_factor = ws.dpi_scale_factor])]
    ELSE ws

\* Variant of the detach handler that drops the player.
detach_surface_handler_drop(ws) == [ws EXCEPT !.player_ref = None]

\* RuffleEvent::DetachSurface
detach_surface_handler(ws) ==
  IF IsSome(ws.player_ref)
    THEN [ws EXCEPT !.player_ref =
            Some([Unwrap(ws.player_ref) EXCEPT !.is_playing = FALSE])]
    ELSE ws

\* Variant of the match that dispatches a keyboard event also when the
\* worker has no player.
handle_polled_unguarded(ws, event, p0, p1, construct_ok) ==
  CASE event.type = "AttachSurface" ->
         Handled(attach_surface_handler(ws, event.window, construct_ok),
                 p0, p1, <<>>,
                 ~IsSome(ws.player_ref) /\ construct_ok,
                 IsSome(ws.player_ref))
    [] event.type = "AdjustSurfaceSize" ->
         Handled(adjust_surface_size_handler(ws, event.vw, event.vh),
                 p0, p1, <<>>, FALSE, FALSE)
    [] event.type = "DetachSurface" ->
         Handled(detach_surface_handler(ws), p0, p1, <<>>, FALSE, FALSE)
    [] event.type = "HandleKeyEvent" ->
         LET r == dispatch_key_event(event.event, p0, p1) IN
         Handled(ws, r.p0, r.p1, r.out, FALSE, FALSE)
    [] event.type = "Kill" ->
         Handled([NoWorker EXCEPT !.status = "exited"], p0, p1, <<>>,
                 FALSE, FALSE)
    [] OTHER -> Handled(ws, p0, p1, <<>>, FALSE, FALSE)

\* The match on poll_event()'s result; "Empty" stands for Err(TryRecvError).
handle_polled(ws, event, p0, p1, construct_ok) ==
  CASE event.type = "AttachSurface" ->
         Handled(attach_surface_handler(ws, event.window, construct_ok),
                 p0, p1, <<>>,
                 ~IsSome(ws.player_ref) /\ construct_ok,
                 IsSome(ws.player_ref))
    [] event.type = "AdjustSurfaceSize" ->
         Handled(adjust_surface_size_handler(ws, event.vw, event.vh),
                 p0, p1, <<>>, FALSE, FALSE)
    [] event.type = "DetachSurface" ->
         Handled(detach_surface_handler(ws), p0, p1, <<>>, FALSE, FALSE)
    [] event.type = "HandleKeyEvent" ->
         IF IsSome(ws.player_ref)
           THEN LET r == dispatch_key_event(event.event, p0, p1) IN
                Handled(ws, r.p0, r.p1, r.out, FALSE, FALSE)
           ELSE Handled(ws, p0, p1, <<>>, FALSE, FALSE)
    [] event.type = "Kill" ->
         Handled([NoWorker EXCEPT !.status = "exited"], p0, p1, <<>>,
                 FALSE, FALSE)
    [] OTHER -> Handled(ws, p0, p1, <<>>, FALSE, FALSE)

\* The buttons of the joypad poll in the order the loop dispatches them.
PollButtons ==
  << [id |-> RETRO_DEVICE_ID_JOYPAD_A, key |-> "ButtonA"],
     [id |-> RETRO_DEVICE_ID_JOYPAD_B, key |-> "ButtonB"],
     [id |-> RETRO_DEVICE_ID_JOYPAD_X, key |-> "ButtonX"],
     [id |-> RETRO_DEVICE_ID_JOYPAD_Y, key |-> "ButtonY"],
     [id |-> RETRO_DEVICE_ID_JOYPAD_LEFT, key |-> "DpadLeft"],
     [id |-> RETRO_DEVICE_ID_JOYPAD_RIGHT, key |-> "DpadRight"],
     [id |-> RETRO_DEVICE_ID_JOYPAD_UP, key |-> "DpadUp"],
     [id |-> RETRO_DEVICE_ID_JOYPAD_DOWN, key |-> "DpadDown"],
     [id |-> RETRO_DEVICE_ID_JOYPAD_SELECT, key |-> "ButtonSelect"],
     [id |-> RETRO_DEVICE_ID_JOYPAD_START, key |-> "ButtonStart"],
     [id |-> RETRO_DEVICE_ID_JOYPAD_L, key |-> "ButtonL1"],
     [id |-> RETRO_DEVICE_ID_JOYPAD_R, key |-> "ButtonR1"] >>

\* Variant of the polled ports that polls port 1 instead of port 0.
PollPorts_port1 == <<1>>

\* for port in 0..1
PollPorts == <<0>>

\* status >> id & 0x1
MaskBit(status, id) == (status \div (2 ^ id)) % 2

\* The action the loop builds for a button: KeyAction::from(status >> id & 1).
PolledAction(status, id) == KeyActionFromI32(MaskBit(status, id))

\* The twelve dispatches of one port's joypad poll, in order.  The result of
\* each dispatch is bound as an element of a singleton so that it is
\* computed once, also where the action is evaluated under ENABLED.
RECURSIVE poll_joypad(_, _, _, _, _, _)
poll_joypad(status, port, i, p0, p1, out) ==
  IF i > Len(PollButtons)
    THEN [p0 |-> p0, p1 |-> p1, out |-> out]
    ELSE CHOOSE polled_rest \in
           { poll_joypad(status, port, i + 1, r.p0, r.p1, out \o r.out) :
               r \in { dispatch_key_event(
                          KeyEvent_gamepad(port, PollButtons[i].key,
                                           PolledAction(status, PollButtons[i].id)),
                          p0, p1) } } : TRUE

\* (raw + 32767.0) * dimension / 65534.0, kept as an exact fraction.
rescale(raw, dimension) == [num |-> (raw + 32767) * dimension, den |-> 65534]

\* InputDispatcher::dispacth_pointer_event(PointerEvent::new(x, y, pressed)):
\* the pointer dispatch the worker calls, on the global pressed flag.
dispacth_pointer_event(x, y, pressed, pointer_action) ==
  dispatch_touch_event(TouchEvent_new(x, y, KeyActionFromBool(pressed)),
                       pointer_action)

\* One loop iteration of worker w: poll the channel without blocking, handle
\* at most one event, then (with a player) read the clock and, when it has
\* advanced past prev_frame_time, tick by the difference and render if
\* needed; then poll the joypad of port 0 and the pointer, and dispatch them.
worker_iterate(w, status, pressed_raw, pointer, needs_render, construct_ok) ==
  /\ workers[w].status = "looping"
  /\ LET got == queue # <<>>
         event == IF got THEN Head(queue) ELSE [type |-> "Empty"]
         h == handle_polled(workers[w], event, P0_ROUTE_TABLE, P1_ROUTE_TABLE,
                            construct_ok)
         framed == h.ws.status = "looping" /\ IsSome(h.ws.player_ref)
         player == Unwrap(h.ws.player_ref)
         j == poll_joypad(status, PollPorts[1], 1, h.p0, h.p1, <<>>)
         pressed == pressed_raw = 1
         x == rescale(pointer[1], player.viewport[1])
         y == rescale(pointer[2], player.viewport[2])
         t == dispacth_pointer_event(x, y, pressed, POINTER_ACTION)
         dt == clock - prev_frame_time[w]
         ticks == framed /\ dt > 0
     IN /\ queue' = IF got THEN Tail(queue) ELSE queue
        /\ workers' = [workers EXCEPT ![w] = h.ws]
        /\ P0_ROUTE_TABLE' = IF framed THEN j.p0 ELSE h.p0
        /\ P1_ROUTE_TABLE' = IF framed THEN j.p1 ELSE h.p1
        /\ POINTER_ACTION' = IF framed THEN t.pointer ELSE POINTER_ACTION
        /\ polled' = IF framed THEN status ELSE polled
        /\ emitted' = IF framed THEN h.out \o j.out \o t.out ELSE h.out
        /\ lastOp' = [op |-> "worker_iterate", w |-> w, event |-> event.type,
                      built |-> h.built, recreated |-> h.recreated,
                      framed |-> framed,
                      ticked |-> ticks,
                      rendered |-> ticks /\ needs_render,
                      prevMask |-> IF framed THEN polled ELSE NoMask]
        /\ created_at' = IF h.built THEN [created_at EXCEPT ![w] = clock]
                                    ELSE created_at
        /\ prev_frame_time' = IF ticks
                                THEN [prev_frame_time EXCEPT ![w] = clock]
                                ELSE prev_frame_time
        /\ ticked' = IF ticks THEN [ticked EXCEPT ![w] = @ + dt] ELSE ticked
  /\ UNCHANGED <<THREAD_HANDLE, handleGuard, PROPS, hostPc, hostHandle,
                 spawned, prevOp, prevEmitted, lastDispatched, emitVars,
                 clock>>

\* The iteration of worker w reads construct_ok only when it builds a
\* player, and the frame inputs only when it reaches the frame step; fixing
\* the inputs it does not read drops duplicate successors, nothing else.
ReadsConstruct(w) ==
  /\ queue # <<>>
  /\ Head(queue).type = "AttachSurface"
  /\ ~IsSome(workers[w].player_ref)

ReachesFrame(w, construct_ok) ==
  /\ queue # <<>> => Head(queue).type # "Kill"
  /\ \/ IsSome(workers[w].player_ref)
     \/ ReadsConstruct(w) /\ construct_ok

InputsRead(w, status, pressed_raw, pointer, needs_render, construct_ok) ==
  /\ ~ReadsConstruct(w) => construct_ok
  /\ ~ReachesFrame(w, construct_ok) =>
        /\ status = QuietMask
        /\ pressed_raw = 0
        /\ needs_render = FALSE
        /\ pointer = CHOOSE p \in PollPointers : TRUE

(***************************************************************************)
(* The program: host threads call the entry points in any order and        *)
(* interleaving, workers run their loops.  The frame inputs are the quiet  *)
(* ones (no button, pointer released, every frame rendered); SessionSpec   *)
(* below varies the joypad mask and the render request.  The clock stands  *)
(* still in both, so their frames find dt = 0 and skip the tick; TickSpec  *)
(* lets the clock advance.                                                 *)
(***************************************************************************)
Next ==
  \/ \E window \in WindowSizes : em_attach_surface(window)
  \/ em_detach_surface
  \/ \E h \in Hosts : em_start_spawn(h)
  \/ \E h \in Hosts : em_start_store(h)
  \/ \E h \in Hosts : em_stop_send(h)
  \/ \E h \in Hosts : em_stop_lock(h)
  \/ \E h \in Hosts : em_stop_join(h)
  \/ \E w \in Workers : worker_init(w)
  \/ \E w \in Workers, pointer \in PollPointers, construct_ok \in BOOLEAN :
       LET needs_render == ReachesFrame(w, construct_ok) IN
       /\ InputsRead(w, QuietMask, 0, pointer, needs_render, construct_ok)
       /\ worker_iterate(w, QuietMask, 0, pointer, needs_render, construct_ok)

Spec == Init /\ [][Next]_vars

(***************************************************************************)
(* One session at a time: a single host thread starts a worker only when   *)
(* none is registered; every kind of event occurs, the joypad mask and the *)
(* render request vary, the pointer stays released (DispatchSpec covers    *)
(* the pointer).                                                           *)
(***************************************************************************)
SessionHost == "h1"

SessionNext ==
  \/ \E window \in WindowSizes : em_attach_surface(window)
  \/ \E size \in AdjustSizes : em_adjust_surface_size(size[1], size[2])
  \/ em_detach_surface
  \/ \E key \in KeyboardKeys, action \in KeyboardActions :
       em_dispatch_keyboard_event(key, action)
  \/ \E key \in PropKeys, val \in PropValues : em_set_prop(key, val)
  \/ THREAD_HANDLE = NoHandle /\ em_start_spawn(SessionHost)
  \/ em_start_store(SessionHost)
  \/ em_stop_send(SessionHost)
  \/ em_stop_lock(SessionHost)
  \/ em_stop_join(SessionHost)
  \/ \E w \in Workers : worker_init(w)
  \/ \E w \in Workers, status \in PollMasks, pointer \in PollPointers,
        needs_render \in BOOLEAN, construct_ok \in BOOLEAN :
       /\ InputsRead(w, status, 0, pointer, needs_render, construct_ok)
       /\ worker_iterate(w, status, 0, pointer, needs_render, construct_ok)

SessionSpec == Init /\ [][SessionNext]_vars

(***************************************************************************)
(* The pointer rescale on its own: the two axis values the host callback   *)
(* returns are integers of the signed 16-bit range, the viewport           *)
(* dimensions are positive.                                                *)
(***************************************************************************)
RawAxisValues == {-32768, -32767, -1, 0, 1, 32766, 32767}

Dimensions == 1..MaxDim

\* let x = ...; let y = ...: the coordinates handed to the pointer dispatch.
RescalePointer(pointer, dimension) ==
  /\ lastOp' = [op |-> "rescale", pointer |-> pointer, dimension |-> dimension,
                out |-> <<rescale(pointer[1], dimension[1]),
                          rescale(pointer[2], dimension[2])>>]
  /\ emitted' = <<>>
  /\ UNCHANGED <<inputVars, progVars, prevOp, prevEmitted, lastDispatched,
                 emitVars, timeVars>>

RescaleNext ==
  \E pointer \in RawAxisValues \X RawAxisValues,
     dimension \in Dimensions \X Dimensions :
    RescalePointer(pointer, dimension)

RescaleSpec == Init /\ [][RescaleNext]_vars

(***************************************************************************)
(* One worker with a running clock: a single host thread attaches and      *)
(* detaches the surface and starts one worker; the monotonic clock         *)
(* advances between the steps of the threads.  The other specifications    *)
(* leave the clock where it is.                                            *)
(***************************************************************************)

\* The monotonic clock advances by one microsecond.
Elapse ==
  /\ clock < MaxTime
  /\ clock' = clock + 1
  /\ lastOp' = [op |-> "elapse"]
  /\ emitted' = <<>>
  /\ UNCHANGED <<inputVars, progVars, prevOp, prevEmitted, lastDispatched,
                 emitVars, prev_frame_time, created_at, ticked>>

TickNext ==
  \/ \E window \in WindowSizes : em_attach_surface(window)
  \/ em_detach_surface
  \/ THREAD_HANDLE = NoHandle /\ em_start_spawn(SessionHost)
  \/ em_start_store(SessionHost)
  \/ \E w \in Workers : worker_init(w)
  \/ \E w \in Workers, pointer \in PollPointers, needs_render \in BOOLEAN,
        construct_ok \in BOOLEAN :
       /\ InputsRead(w, QuietMask, 0, pointer, needs_render, construct_ok)
       /\ worker_iterate(w, QuietMask, 0, pointer, needs_render, construct_ok)
  \/ Elapse

TickSpec == Init /\ [][TickNext]_vars

(***************************************************************************)
(* Properties of the dispatcher (checked under DispatchSpec).              *)
(***************************************************************************)

\* The latest two dispatcher calls were the same gamepad event for a code
\* that is present in the selected port's route table.
SameRoutedGamepadTwice ==
  /\ lastOp.op = "dispatch_key_event"
  /\ prevOp.op = "dispatch_key_event"
  /\ lastOp.event = prevOp.event
  /\ lastOp.event.source = "Gamepad"
  /\ lastOp.before # "Absent"

\* C1 (as stated): for every routed device code and each action, dispatching
\* that action twice in a row emits exactly one event to the player in total.
C1_TwiceEmitsExactlyOne ==
  SameRoutedGamepadTwice => Len(prevEmitted) + Len(emitted) = 1

\* C1 (amended): dispatching the same action twice in a row for a routed code
\* emits at most one event in total: the first dispatch emits one event
\* (key-down for Down, key-up for Up) exactly when the entry's stored action
\* differed from it, and the second dispatch emits nothing.
C1_TwiceEmitsAtMostOne ==
  SameRoutedGamepadTwice =>
    /\ emitted = <<>>
    /\ Len(prevEmitted) = (IF prevOp.before # prevOp.event.action THEN 1 ELSE 0)
    /\ \A i \in 1..Len(prevEmitted) :
         prevEmitted[i].type =
           (IF prevOp.event.action = "Down" THEN "KeyDown" ELSE "KeyUp")

\* Port 0, button A, down, down: one key-down, then nothing.
C1_Witness ==
  /\ SameRoutedGamepadTwice
  /\ lastOp.event = KeyEvent_gamepad(0, "ButtonA", "Down")
  /\ Len(prevEmitted) = 1
  /\ prevEmitted[1].type = "KeyDown"
  /\ emitted = <<>>

\* C3: pointer dispatch follows the transition law on the global pressed
\* flag: released->pressed emits one mouse-down and sets the flag,
\* pressed->pressed emits one mouse-move and leaves the flag,
\* pressed->released emits one mouse-up and clears the flag,
\* released->released emits nothing.
C3_PointerTransitionLaw ==
  lastOp.op = "dispatch_touch_event" =>
    LET e == lastOp.event
        pressed == e.action = "Down"
        flag == lastOp.before
    IN /\ (pressed /\ ~flag) =>
            (emitted = <<MouseDown(e.x, e.y)>> /\ POINTER_ACTION = TRUE)
       /\ (pressed /\ flag) =>
            (emitted = <<MouseMove(e.x, e.y)>> /\ POINTER_ACTION = TRUE)
       /\ (~pressed /\ flag) =>
            (emitted = <<MouseUp(e.x, e.y)>> /\ POINTER_ACTION = FALSE)
       /\ (~pressed /\ ~flag) =>
            (emitted = <<>> /\ POINTER_ACTION = FALSE)

\* A release directly after a move: press, press, release have happened.
C3_Witness ==
  /\ lastOp.op = "dispatch_touch_event"
  /\ prevOp.op = "dispatch_touch_event"
  /\ Len(prevEmitted) = 1
  /\ prevEmitted[1].type = "MouseMove"
  /\ Len(emitted) = 1
  /\ emitted[1].type = "MouseUp"
  /\ POINTER_ACTION = FALSE

\* C4: for a device code absent from the table that applies to the event
\* (the port's route table for a gamepad event, the descriptor table for a
\* keyboard event), dispatch_key_event emits nothing and leaves every stored
\* key state and the pointer flag unchanged.
C4_AbsentCodeIsNoOp ==
  [][(/\ lastOp'.op = "dispatch_key_event"
      /\ lastOp'.event.key \notin ApplicableCodes(lastOp'.event))
       => (emitted' = <<>> /\ UNCHANGED inputVars)]_vars

\* An unrouted gamepad code dispatched while a routed button is held.
C4_Witness ==
  /\ lastOp.op = "dispatch_key_event"
  /\ lastOp.event.source = "Gamepad"
  /\ lastOp.event.key = "ButtonL2"
  /\ lastOp.before = "Absent"
  /\ emitted = <<>>
  /\ P0_ROUTE_TABLE["ButtonA"].action = "Down"

\* The latest two dispatcher calls were the same keyboard event for a key
\* that has a descriptor.
SameMappedKeyboardTwice ==
  /\ lastOp.op = "dispatch_key_event"
  /\ prevOp.op = "dispatch_key_event"
  /\ lastOp.event = prevOp.event
  /\ lastOp.event.source = "Keyboard"
  /\ lastOp.event.key \in DOMAIN KEYCODE_DESCRIPTORS

\* C9 (as stated): keyboard events are de-duplicated like gamepad events, so
\* the second of two identical consecutive keyboard events emits nothing.
C9_KeyboardDeduplicated ==
  SameMappedKeyboardTwice => emitted = <<>>

\* C9 (amended): the keyboard branch keeps no state: every keyboard event for
\* a mapped key emits exactly one event, key-down for Down and key-up for Up,
\* carrying the key's descriptor, whatever was dispatched before; two
\* consecutive downs emit two key-downs.
C9_KeyboardEmitsEveryEvent ==
  (/\ lastOp.op = "dispatch_key_event"
   /\ lastOp.event.source = "Keyboard"
   /\ lastOp.event.key \in DOMAIN KEYCODE_DESCRIPTORS)
    => emitted =
         <<(IF lastOp.event.action = "Down"
              THEN KeyDown(KEYCODE_DESCRIPTORS[lastOp.event.key])
              ELSE KeyUp(KEYCODE_DESCRIPTORS[lastOp.event.key]))>>

\* Two consecutive keyboard releases of key A, each emitted as a key-up.
C9_Witness ==
  /\ SameMappedKeyboardTwice
  /\ lastOp.event = KeyEvent_new("A", "Up")
  /\ Len(prevEmitted) = 1
  /\ prevEmitted[1].type = "KeyUp"
  /\ Len(emitted) = 1
  /\ emitted[1].type = "KeyUp"

\* C10: the port 0 and port 1 route tables are independent: a gamepad
\* dispatch for port p leaves the other port's table unchanged, changes at
\* most the dispatched code's entry of port p's table, and (for a routed
\* code) emits exactly when its action differs from the action last
\* dispatched to port p for that code (Up when there was none).
C10_PortsIndependent ==
  [][\A p \in {0, 1} :
       (/\ lastOp'.op = "dispatch_key_event"
        /\ lastOp'.event.source = "Gamepad"
        /\ lastOp'.event.port = p)
       => LET e == lastOp'.event
              mine == IF p = 1 THEN P1_ROUTE_TABLE ELSE P0_ROUTE_TABLE
              mine2 == IF p = 1 THEN P1_ROUTE_TABLE' ELSE P0_ROUTE_TABLE'
          IN /\ IF p = 1 THEN UNCHANGED P0_ROUTE_TABLE
                         ELSE UNCHANGED P1_ROUTE_TABLE
             /\ \A code \in DOMAIN mine :
                  code # e.key => mine2[code] = mine[code]
             /\ e.key \in DOMAIN mine =>
                  ((emitted' # <<>>) <=> (e.action # lastDispatched[p][e.key]))
     ]_vars

\* Button A is held on port 1 while port 0 has just released it: each port
\* kept its own state.
C10_Witness ==
  /\ lastOp.op = "dispatch_key_event"
  /\ lastOp.event = KeyEvent_gamepad(0, "ButtonA", "Up")
  /\ Len(emitted) = 1
  /\ emitted[1].type = "KeyUp"
  /\ P1_ROUTE_TABLE["ButtonA"].action = "Down"
  /\ P0_ROUTE_TABLE["ButtonA"].action = "Up"

(***************************************************************************)
(* Fairness: a spawned worker thread keeps running its loop, and a host    *)
(* thread inside em_start / em_stop keeps going: it gets the THREAD_HANDLE *)
(* mutex once it stays free, and its join returns once the joined thread   *)
(* has ended.  One host thread makes the calls, and need not call at all.  *)
(***************************************************************************)
WorkerStep(w) ==
  \/ worker_init(w)
  \/ \E pointer \in PollPointers, construct_ok \in BOOLEAN :
       LET needs_render == ReachesFrame(w, construct_ok) IN
       /\ InputsRead(w, QuietMask, 0, pointer, needs_render, construct_ok)
       /\ worker_iterate(w, QuietMask, 0, pointer, needs_render, construct_ok)

FairHost == "h1"

FairNext ==
  \/ \E window \in WindowSizes : em_attach_surface(window)
  \/ em_start_spawn(FairHost)
  \/ em_start_store(FairHost)
  \/ em_stop_send(FairHost)
  \/ em_stop_lock(FairHost)
  \/ em_stop_join(FairHost)
  \/ \E w \in Workers : WorkerStep(w)

Fairness ==
  /\ \A w \in Workers : WF_vars(WorkerStep(w))
  /\ WF_vars(em_start_store(FairHost))
  /\ WF_vars(em_stop_lock(FairHost))
  /\ WF_vars(em_stop_join(FairHost))

FairSpec == Init /\ [][FairNext]_vars /\ Fairness

(***************************************************************************)
(* The lifecycle state of a worker, read off its thread status and its     *)
(* player: NONE before the thread is spawned, ABORTED after a panic.       *)
(***************************************************************************)
Lifecycle(ws) ==
  CASE ws.status = "unspawned" -> "NONE"
    [] ws.status = "exited" -> "TERMINATED"
    [] ws.status = "panicked" -> "ABORTED"
    [] ~IsSome(ws.player_ref) -> "UNINITIALIZED"
    [] Unwrap(ws.player_ref).is_playing -> "RUNNING"
    [] OTHER -> "PAUSED"

Alive(ws) == ws.status \in {"starting", "looping"}

\* Number of PlayerEvents of the given type and descriptor in a sequence.
CountEvents(events, type, desc) ==
  Cardinality({i \in 1..Len(events) :
                 events[i] = [type |-> type, key |-> desc]})

(***************************************************************************)
(* Properties of the worker and the entry points.                          *)
(***************************************************************************)

\* C2: in the per-frame joypad poll, between consecutive frames, a button
\* whose mask bit goes from clear to set yields exactly one key-down, a bit
\* that stays set (or stays clear) yields no event, and a bit that goes from
\* set to clear yields exactly one key-up.
C2_PollEdgesAreKeyDownThenUp ==
  (/\ lastOp.op = "worker_iterate"
   /\ lastOp.framed
   /\ lastOp.prevMask # NoMask)
    => \A i \in 1..Len(PollButtons) :
         LET was == MaskBit(lastOp.prevMask, PollButtons[i].id)
             now == MaskBit(polled, PollButtons[i].id)
             desc == P0_ROUTE_TABLE[PollButtons[i].key].descriptor
         IN /\ CountEvents(emitted, "KeyDown", desc) =
                 (IF was = 0 /\ now = 1 THEN 1 ELSE 0)
            /\ CountEvents(emitted, "KeyUp", desc) =
                 (IF was = 1 /\ now = 0 THEN 1 ELSE 0)

\* C5: when a call of em_stop returns, no worker thread is running.
C5_NoWorkerAfterStopReturns ==
  [][\A h \in Hosts :
       (hostPc[h] \in {"stop_lock", "stop_join"} /\ hostPc'[h] = "idle")
         => \A w \in Workers : ~Alive(workers'[w])]_vars

\* C6: every call of em_stop eventually returns.
C6_StopEventuallyReturns ==
  (hostPc[FairHost] \in {"stop_lock", "stop_join"}) ~> (hostPc[FairHost] = "idle")

C8_PlayerBuiltAtMostOnce ==
  /\ \A w \in Workers :
       /\ workers[w].builds <= 1
       /\ IsSome(workers[w].player_ref) <=> workers[w].builds = 1
  /\ (lastOp.op = "worker_iterate" /\ lastOp.event = "AttachSurface") =>
       LET ws == workers[lastOp.w] IN
       /\ ~(lastOp.built /\ lastOp.recreated)
       /\ lastOp.recreated =>
            /\ ws.builds = 1
            /\ Unwrap(ws.player_ref).is_playing
            /\ Unwrap(ws.player_ref).surface \in WindowSizes

\* An attach event handled by a worker that already had a player.
C8_Witness ==
  /\ lastOp.op = "worker_iterate"
  /\ lastOp.event = "AttachSurface"
  /\ lastOp.recreated
  /\ workers[lastOp.w].builds = 1

(***************************************************************************)
(* Properties of the route tables, the threads and the worker loop.        *)
(***************************************************************************)

\* C11: each port's route table holds the 14 configured buttons under 14
\* distinct device codes: build_route_table makes 14 inserts, none of them
\* under a code already inserted, so both tables have 14 entries.
C11_FourteenDistinctCodes ==
  /\ Cardinality(DOMAIN P0_ROUTE_TABLE) = 14
  /\ Cardinality(DOMAIN P1_ROUTE_TABLE) = 14
  /\ \A port \in DispatchPorts :
       LET inserts == RouteInserts(port) IN
       /\ Len(inserts) = 14
       /\ \A i, j \in 1..Len(inserts) :
            i # j => inserts[i][1] # inserts[j][1]

\* C12: at most one worker thread is alive at any time.
C12_AtMostOneWorkerAlive ==
  Cardinality({w \in Workers : Alive(workers[w])}) <= 1

\* C13: a host thread inside em_start never waits for a worker: whenever it
\* has spawned its worker and is about to store the handle, the THREAD_HANDLE
\* mutex is free, or is held by an em_stop whose joined worker has already
\* ended (so that the mutex is released without any worker making progress).
C13_StartNeverWaitsForWorker ==
  \A h \in Hosts :
    hostPc[h] = "start_store" =>
      \/ handleGuard = "free"
      \/ handleGuard \in Hosts /\ ~Alive(workers[hostHandle[handleGuard]])

\* C14: only the worker thread touches its player: a step that changes the
\* player of worker w (creates, mutates or drops it) is a loop iteration of
\* w, a host entry point leaves every player as it is and hands no event to
\* a player; it acts on the players only through the queue.
C14_PlayerOwnedByWorker ==
  [][/\ \A w \in Workers :
          workers'[w].player_ref # workers[w].player_ref =>
            lastOp'.op = "worker_iterate" /\ lastOp'.w = w
     /\ lastOp' = HostOp =>
          /\ emitted' = <<>>
          /\ \A w \in Workers :
               workers'[w].player_ref = workers[w].player_ref
    ]_vars

\* A detach request sent by a host thread while a worker's player is still
\* playing: the player is untouched until the worker handles the event.
C14_Witness ==
  /\ lastOp = HostOp
  /\ queue # <<>>
  /\ queue[Len(queue)].type = "DetachSurface"
  /\ \E w \in Workers :
       /\ IsSome(workers[w].player_ref)
       /\ Unwrap(workers[w].player_ref).is_playing

\* C15: a loop iteration removes at most one event, the one at the head of
\* the queue, and handles it; host steps only append at the tail, so events
\* are handled in the order they were sent; an iteration that finds the
\* queue empty removes nothing and, when the worker has a player, still
\* runs the tick / render / input-poll step.
C15_OneEventPerIterationInOrder ==
  [][/\ Len(queue') >= Len(queue) - 1
     /\ lastOp'.op = "worker_iterate" =>
          IF queue # <<>>
            THEN /\ queue' = Tail(queue)
                 /\ lastOp'.event = Head(queue).type
            ELSE /\ queue' = queue
                 /\ lastOp'.event = "Empty"
                 /\ IsSome(workers[lastOp'.w].player_ref) =>
                      /\ lastOp'.framed
                      /\ polled' \in PollMasks
                      /\ workers'[lastOp'.w] = workers[lastOp'.w]
     /\ lastOp'.op # "worker_iterate" =>
          \/ queue' = queue
          \/ /\ Len(queue') = Len(queue) + 1
             /\ SubSeq(queue', 1, Len(queue)) = queue
    ]_vars

\* An iteration that found the queue empty and ran the frame step.
C15_Witness ==
  /\ lastOp.op = "worker_iterate"
  /\ lastOp.event = "Empty"
  /\ lastOp.framed
  /\ queue = <<>>

\* C16: the rescale maps every raw axis value of the signed 16-bit range
\* into [0, dimension], monotonically, the minimum raw value -32768 to 0 and
\* the maximum raw value 32767 to the far edge, for every positive dimension.
C16_RescaleIntoViewport ==
  lastOp.op = "rescale" =>
    \A axis \in 1..2 :
      LET raw == lastOp.pointer[axis]
          dimension == lastOp.dimension[axis]
          out == lastOp.out[axis]
      IN /\ 0 <= out.num
         /\ out.num <= dimension * out.den
         /\ raw = -32768 => out.num = 0
         /\ raw = 32767 => out.num = dimension * out.den
         /\ \A other \in RawAxisValues :
              other <= raw =>
                rescale(other, dimension).num * out.den
                  <= out.num * rescale(other, dimension).den

\* The descriptor of the default arm of keycode_as_descriptor.
PlaceholderDescriptor == KeyDescriptor("Unknown", LogicalUnknown, "Standard")

\* Device key codes that KEYCODE_ARRAY does not list.
UnlistedKeycodes ==
  {"ButtonA", "ButtonB", "ButtonX", "ButtonY", "ButtonSelect", "ButtonStart",
   "ButtonL1", "ButtonR1", "ButtonL2", "ButtonR2"}

\* C17: every key code of KEYCODE_ARRAY resolves to a descriptor other than
\* the placeholder, every code outside it resolves to absent, and no
\* dispatched key event ever hands the placeholder to the player.
C17_ListedCodesResolve ==
  /\ \A keycode \in SeqRange(KEYCODE_ARRAY) :
       /\ IsSome(get_descriptor(keycode))
       /\ Unwrap(get_descriptor(keycode)) # PlaceholderDescriptor
       /\ Unwrap(get_descriptor(keycode)) = keycode_as_descriptor(keycode)
  /\ \A keycode \in UnlistedKeycodes :
       /\ keycode \notin SeqRange(KEYCODE_ARRAY)
       /\ get_descriptor(keycode) = None
  /\ \A i \in 1..Len(emitted) :
       emitted[i].type \in {"KeyDown", "KeyUp"} =>
         emitted[i].key # PlaceholderDescriptor
  /\ (/\ lastOp.op = "dispatch_key_event"
      /\ lastOp.event.source = "Keyboard"
      /\ lastOp.event.key \in UnlistedKeycodes) => emitted = <<>>

\* A keyboard event for a listed code has handed its descriptor to the
\* player right after one for an unlisted code was dropped.
C17_Witness ==
  /\ lastOp.op = "dispatch_key_event"
  /\ lastOp.event = KeyEvent_new("A", "Down")
  /\ emitted = <<KeyDown(keycode_as_descriptor("A"))>>
  /\ prevOp.op = "dispatch_key_event"
  /\ prevOp.event.source = "Keyboard"
  /\ prevOp.event.key = "ButtonL2"
  /\ prevEmitted = <<>>

\* C18: when a worker thread begins its session, every entry of both route
\* tables has the last action Up and the pointer flag is released.
C18_SessionStartsWithReleasedInput ==
  lastOp.op = "worker_init" =>
    /\ \A key \in DOMAIN P0_ROUTE_TABLE : P0_ROUTE_TABLE[key].action = "Up"
    /\ \A key \in DOMAIN P1_ROUTE_TABLE : P1_ROUTE_TABLE[key].action = "Up"
    /\ POINTER_ACTION = FALSE

\* C19: a construction failure on the first attach event is fatal with no
\* retry.  An attach event handled by a worker without a player either
\* builds the player or ends the worker thread; the failing iteration
\* leaves no player, emits nothing and runs no frame step; the ended worker
\* never handles another event, never runs another frame and never builds.
C19_ConstructionFailureIsFatal ==
  [][\A w \in Workers :
       /\ workers[w].status = "panicked" =>
            /\ workers'[w] = workers[w]
            /\ ~(lastOp'.op \in {"worker_init", "worker_iterate"} /\ lastOp'.w = w)
       /\ (/\ lastOp'.op = "worker_iterate"
           /\ lastOp'.w = w
           /\ lastOp'.event = "AttachSurface"
           /\ ~IsSome(workers[w].player_ref)
           /\ ~lastOp'.built) =>
            /\ workers'[w].status = "panicked"
            /\ ~IsSome(workers'[w].player_ref)
            /\ workers'[w].builds = 0
            /\ ~lastOp'.framed
            /\ ~lastOp'.rendered
            /\ emitted' = <<>>
            /\ polled' = polled
            /\ queue' = Tail(queue)
       /\ workers'[w].status = "panicked" /\ workers[w].status # "panicked" =>
            /\ lastOp'.op = "worker_iterate"
            /\ lastOp'.w = w
            /\ lastOp'.event = "AttachSurface"
    ]_vars

\* A worker has ended on a construction failure and a later attach event is
\* waiting in the queue.
C19_Witness ==
  /\ \E w \in Workers : workers[w].status = "panicked"
  /\ lastOp = HostOp
  /\ queue # <<>>
  /\ queue[Len(queue)].type = "AttachSurface"

\* The value stored under a key of the property store, "none" when absent.
StoredProp(props, key) ==
  IF IsSome(props) /\ key \in DOMAIN Unwrap(props)
    THEN Unwrap(props)[key]
    ELSE "none"

\* The scale factor of a worker's session: the one it read at startup, and
\* before that read the one it would read from the given property store.
SessionScaleFactor(ws, props) ==
  IF ws.status = "starting"
    THEN Properties_f(props, PROP_DISPLAY_SCALED_DENSITY, 1)
    ELSE ws.dpi_scale_factor

\* What C20 says of the store and of the use of the factor: only the key
\* ruffle_scale_factor is ever stored, by a host step, as a float; a worker
\* reads the stored value (default 1) at its startup and uses what it read
\* for the creation of the player and for every resize.
ScaleFactorStoredAndUsed ==
  /\ \A key \in PropKeys \ {PROP_DISPLAY_SCALED_DENSITY} :
       StoredProp(PROPS', key) = "none"
  /\ PROPS' # PROPS =>
       /\ lastOp' = HostOp
       /\ \E val \in PropValues :
            PROPS' = Properties_put(PROPS, PROP_DISPLAY_SCALED_DENSITY,
                                    TypedValue_F(val))
  /\ \A w \in Workers :
       /\ (lastOp'.op = "worker_init" /\ lastOp'.w = w) =>
            workers'[w].dpi_scale_factor =
              Properties_f(PROPS, PROP_DISPLAY_SCALED_DENSITY, 1)
       /\ (/\ lastOp'.op = "worker_iterate"
           /\ lastOp'.w = w
           /\ \/ lastOp'.built
              \/ /\ lastOp'.event = "AdjustSurfaceSize"
                 /\ IsSome(workers[w].player_ref)) =>
            Unwrap(workers'[w].player_ref).scale_factor =
              workers[w].dpi_scale_factor

\* The call of em_start that spawned worker w has returned and w is running.
Started(w) ==
  /\ Alive(workers[w])
  /\ \A h \in Hosts : ~(hostPc[h] = "start_store" /\ hostHandle[h] = w)

\* C20 as stated: with the above, once the em_start that spawned a worker
\* has returned no step, set_prop included, changes the scale factor of the
\* worker's session.
C20_NoChangeAfterStart ==
  [][/\ ScaleFactorStoredAndUsed
     /\ \A w \in Workers :
          (Started(w) /\ Alive(workers'[w])) =>
            SessionScaleFactor(workers'[w], PROPS') =
              SessionScaleFactor(workers[w], PROPS)
    ]_vars

\* C20, amended: with the above, once a worker has read the property at its
\* startup no step, set_prop included, changes the scale factor it uses.
C20_NoChangeAfterStartupRead ==
  [][/\ ScaleFactorStoredAndUsed
     /\ \A w \in Workers :
          (workers[w].status = "looping" /\ workers'[w].status = "looping") =>
            workers'[w].dpi_scale_factor = workers[w].dpi_scale_factor
    ]_vars

\* A session that runs with the default factor although a value has been
\* stored since: the resize of its player used the factor read at startup.
C20_Witness ==
  /\ lastOp.op = "worker_iterate"
  /\ lastOp.event = "AdjustSurfaceSize"
  /\ IsSome(workers[lastOp.w].player_ref)
  /\ Unwrap(workers[lastOp.w].player_ref).scale_factor = 1
  /\ Unwrap(workers[lastOp.w].player_ref).viewport \in AdjustSizes
  /\ Properties_f(PROPS, PROP_DISPLAY_SCALED_DENSITY, 1) = 2

(***************************************************************************)
(* Edge-triggering of the gamepad branch (checked under DispatchSpec).     *)
(***************************************************************************)

\* The route table a gamepad event selects, out of a given pair of tables.
SelectedTable(event, p0, p1) == IF event.port = 1 THEN p1 ELSE p0

\* C21: a gamepad event whose code is in the selected route table emits an
\* event iff its action differs from the entry's stored action: a key-down
\* for Down, a key-up for Up, carrying the entry's descriptor.  Afterwards the
\* entry's stored action equals the event's action, and every other entry of
\* both tables is unchanged.
C21_GamepadEdgeTriggered ==
  [][ ( /\ lastOp'.op = "dispatch_key_event"
        /\ lastOp'.event.source = "Gamepad"
        /\ lastOp'.event.key \in ApplicableCodes(lastOp'.event) )
      => LET e == lastOp'.event
             old == SelectedTable(e, P0_ROUTE_TABLE, P1_ROUTE_TABLE)
             new == SelectedTable(e, P0_ROUTE_TABLE', P1_ROUTE_TABLE')
             entry == old[e.key]
         IN /\ (emitted' # <<>>) <=> (entry.action # e.action)
            /\ emitted' # <<>> =>
                 emitted' = <<IF e.action = "Down"
                                THEN KeyDown(entry.descriptor)
                                ELSE KeyUp(entry.descriptor)>>
            /\ new[e.key].action = e.action
            /\ new[e.key].descriptor = entry.descriptor
            /\ DOMAIN new = DOMAIN old
            /\ \A k \in DOMAIN old \ {e.key} : new[k] = old[k]
            /\ IF e.port = 1
                 THEN P0_ROUTE_TABLE' = P0_ROUTE_TABLE
                 ELSE P1_ROUTE_TABLE' = P1_ROUTE_TABLE
    ]_vars

\* Port 1, d-pad left released while stored as Down: one key-up with the
\* entry's descriptor, the entry is Up again and port 1's button A is still
\* held from an earlier press.
C21_Witness ==
  /\ lastOp.op = "dispatch_key_event"
  /\ lastOp.event = KeyEvent_gamepad(1, "DpadLeft", "Up")
  /\ lastOp.before = "Down"
  /\ emitted = <<KeyUp(P1_ROUTE_TABLE["DpadLeft"].descriptor)>>
  /\ P1_ROUTE_TABLE["DpadLeft"].action = "Up"
  /\ P1_ROUTE_TABLE["ButtonA"].action = "Down"

(***************************************************************************)
(* The frame clock of the worker loop (checked under TickSpec).            *)
(***************************************************************************)

\* C22: the sum of the durations handed to the player's tick never exceeds
\* the time that has passed on the clock since the player was created.
C22_TickedWithinPlayerAge ==
  \A w \in Workers :
    created_at[w] # NoTime => ticked[w] <= clock - created_at[w]

(***************************************************************************)
(* The shoulder buttons of the route tables (checked under DispatchSpec).  *)
(***************************************************************************)

\* C23: in port 0's route table ButtonL1 carries the key 1 and ButtonR1 the
\* key 2; in port 1's table ButtonL1 carries the key 7 and ButtonR1 the key 8.
C23_ShoulderButtonsKeepFirstKeys ==
  /\ P0_ROUTE_TABLE["ButtonL1"].descriptor = KEYCODE_DESCRIPTORS["Keycode1"]
  /\ P0_ROUTE_TABLE["ButtonR1"].descriptor = KEYCODE_DESCRIPTORS["Keycode2"]
  /\ P1_ROUTE_TABLE["ButtonL1"].descriptor = KEYCODE_DESCRIPTORS["Keycode7"]
  /\ P1_ROUTE_TABLE["ButtonR1"].descriptor = KEYCODE_DESCRIPTORS["Keycode8"]

(***************************************************************************)
(* Alternation of the emitted events (checked under RecordedSpec).         *)
(***************************************************************************)

\* C24: for every port and routed code the key events emitted for it
\* strictly alternate key-down, key-up, key-down, ..., starting with a
\* key-down, and the entry's stored action is Down exactly when the last
\* event emitted for it was a key-down.
C24_KeyEventsAlternate ==
  /\ [](\A port \in DispatchPorts :
         \A code \in DOMAIN SelectedTable([port |-> port], P0_ROUTE_TABLE,
                                          P1_ROUTE_TABLE) :
           (SelectedTable([port |-> port], P0_ROUTE_TABLE,
                          P1_ROUTE_TABLE)[code].action = "Down")
             <=> (lastKeyEmitted[port][code] = "KeyDown"))
  /\ [][ ( /\ lastOp'.op = "dispatch_key_event"
           /\ lastOp'.event.source = "Gamepad"
           /\ lastOp'.event.key \in ApplicableCodes(lastOp'.event)
           /\ emitted' # <<>> )
         => LET e == lastOp'.event
                before == lastKeyEmitted[e.port][e.key]
            IN /\ Len(emitted') = 1
               /\ emitted'[1].type \in {"KeyDown", "KeyUp"}
               /\ emitted'[1].key =
                    SelectedTable(e, P0_ROUTE_TABLE, P1_ROUTE_TABLE)[e.key].descriptor
               /\ emitted'[1].type # before
               /\ before = NoEvent => emitted'[1].type = "KeyDown"
               /\ lastKeyEmitted'[e.port][e.key] = emitted'[1].type
               /\ \A port \in DispatchPorts :
                    \A code \in DOMAIN lastKeyEmitted[port] :
                      (port # e.port \/ code # e.key) =>
                        lastKeyEmitted'[port][code] = lastKeyEmitted[port][code]
       ]_vars

\* Port 0's button A was pressed and released (its last event is a key-up
\* and it is stored Up) while port 1's button A is held: its last event is
\* a key-down.
C24_Witness ==
  /\ lastKeyEmitted[0]["ButtonA"] = "KeyUp"
  /\ P0_ROUTE_TABLE["ButtonA"].action = "Up"
  /\ lastKeyEmitted[1]["ButtonA"] = "KeyDown"
  /\ P1_ROUTE_TABLE["ButtonA"].action = "Down"
  /\ lastOp.op = "dispatch_key_event"
  /\ emitted # <<>>

\* C25: the mouse button events emitted by pointer dispatch strictly
\* alternate mouse-down, mouse-up, mouse-down, ..., starting with a
\* mouse-down; a mouse-move is emitted only between a mouse-down and the
\* following mouse-up; and the pressed flag is true exactly when the last
\* emitted button event was a mouse-down.
C25_ButtonEventsAlternate ==
  /\ [](POINTER_ACTION <=> (lastButtonEmitted = "MouseDown"))
  /\ [][ (lastOp'.op = "dispatch_touch_event" /\ emitted' # <<>>)
         => /\ Len(emitted') = 1
            /\ emitted'[1].type \in {"MouseDown", "MouseUp", "MouseMove"}
            /\ emitted'[1].type = "MouseMove" =>
                 /\ lastButtonEmitted = "MouseDown"
                 /\ lastButtonEmitted' = "MouseDown"
            /\ emitted'[1].type # "MouseMove" =>
                 /\ emitted'[1].type # lastButtonEmitted
                 /\ lastButtonEmitted = NoEvent => emitted'[1].type = "MouseDown"
                 /\ lastButtonEmitted' = emitted'[1].type
       ]_vars

\* A second press after a complete press and release: the mouse-down follows
\* the mouse-up of the first cycle.
C25_Witness ==
  /\ lastOp.op = "dispatch_touch_event"
  /\ prevOp.op = "dispatch_touch_event"
  /\ prevEmitted = <<MouseUp(0, 0)>>
  /\ emitted = <<MouseDown(0, 0)>>
  /\ lastButtonEmitted = "MouseDown"
  /\ POINTER_ACTION

(***************************************************************************)
(* The worker loop with quiet inputs (checked under Spec, where every      *)
(* frame polls the mask 0 and no keyboard event is sent).                  *)
(***************************************************************************)

\* C26: in a session that starts with every route-table entry Up (the first
\* worker of the process) and polls the mask 0 in every frame, the worker
\* emits no key-down and no key-up event.
C26_QuietSessionEmitsNoKeyEvent ==
  (/\ lastOp.op = "worker_iterate"
   /\ spawned = 1
   /\ polled \in {NoMask, QuietMask})
    => \A i \in 1..Len(emitted) : emitted[i].type \notin {"KeyDown", "KeyUp"}

(***************************************************************************)
(* Events consumed without a player (checked under SessionSpec).           *)
(***************************************************************************)

\* C27: a resize, detach or keyboard event consumed while the worker has no
\* player is discarded with no effect: the worker's locals, the route
\* tables and the pointer flag do not change and nothing is emitted; an
\* iteration without a player runs no tick, no render and no input poll;
\* and the player a later attach builds carries the attach event's window,
\* is playing and has received the joypad poll of its first frame only, so
\* no discarded event is replayed.
C27_EventsWithoutPlayerAreDiscarded ==
  [][\A w \in Workers :
       /\ ( /\ lastOp'.op = "worker_iterate"
            /\ lastOp'.w = w
            /\ ~IsSome(workers[w].player_ref)
            /\ lastOp'.event \in {"AdjustSurfaceSize", "DetachSurface",
                                  "HandleKeyEvent", "Empty"} )
          => /\ workers'[w] = workers[w]
             /\ emitted' = <<>>
             /\ UNCHANGED <<inputVars, polled, timeVars>>
             /\ ~lastOp'.framed
             /\ ~lastOp'.ticked
             /\ ~lastOp'.rendered
             /\ queue' = (IF lastOp'.event = "Empty" THEN queue ELSE Tail(queue))
       /\ ( /\ lastOp'.op = "worker_iterate"
            /\ lastOp'.w = w
            /\ lastOp'.built )
          => /\ Head(queue).type = "AttachSurface"
             /\ workers'[w].player_ref =
                  Some([is_playing |-> TRUE,
                        viewport |-> Head(queue).window,
                        scale_factor |-> workers[w].dpi_scale_factor,
                        surface |-> Head(queue).window])
             /\ emitted' = poll_joypad(polled', PollPorts[1], 1, P0_ROUTE_TABLE,
                                       P1_ROUTE_TABLE, <<>>).out
    ]_vars

\* A worker without a player has just consumed a resize event; the attach
\* event that will build the player is still in the channel.
C27_Witness ==
  /\ lastOp.op = "worker_iterate"
  /\ lastOp.event = "AdjustSurfaceSize"
  /\ ~lastOp.framed
  /\ emitted = <<>>
  /\ workers[lastOp.w].status = "looping"
  /\ ~IsSome(workers[lastOp.w].player_ref)
  /\ queue # <<>>
  /\ Head(queue).type = "AttachSurface"

(***************************************************************************)
(* Stopping without a worker (checked under SessionSpec).                  *)
(***************************************************************************)

\* C28: when a call of em_stop made while no worker thread is running
\* returns, it leaves no Kill event in the channel.
C28_StopWithoutWorkerLeavesNoKill ==
  [][\A h \in Hosts :
       ( /\ hostPc[h] = "stop_lock"
         /\ hostPc'[h] = "idle"
         /\ \A w \in Workers : ~Alive(workers[w]) )
       => \A i \in 1..Len(queue') : queue'[i].type # "Kill"
    ]_vars

(***************************************************************************)
(* Rendering while paused (checked under TickSpec).                        *)
(***************************************************************************)

\* C29: after the worker has processed a detach event and until it processes
\* the next attach event, its loop never calls render: an iteration that
\* begins with a paused player and does not handle an attach event does not
\* render.
C29_NoRenderWhilePaused ==
  [][\A w \in Workers :
       ( /\ lastOp'.op = "worker_iterate"
         /\ lastOp'.w = w
         /\ Lifecycle(workers[w]) = "PAUSED"
         /\ lastOp'.event # "AttachSurface" )
       => ~lastOp'.rendered
    ]_vars

(***************************************************************************)
(* Port 1 and the worker loop (checked under SessionSpec).                 *)
(***************************************************************************)

\* The descriptors carried by the entries of a route table.
TableDescriptors(table) == { table[code].descriptor : code \in DOMAIN table }

\* The key events among the events a step emitted.
KeyEventsOf(events) ==
  { events[i] : i \in { j \in 1..Len(events) :
                          events[j].type \in {"KeyDown", "KeyUp"} } }

\* C30 (as stated): through the worker loop no entry of port 1's route table
\* ever leaves Up and no descriptor of port 1's table is ever emitted.
C30_NoPort1DescriptorEmitted ==
  /\ \A code \in DOMAIN P1_ROUTE_TABLE : P1_ROUTE_TABLE[code].action = "Up"
  /\ lastOp.op = "worker_iterate" =>
       \A ev \in KeyEventsOf(emitted) :
          ev.key \notin TableDescriptors(P1_ROUTE_TABLE)

\* C30 (amended): through the worker loop no entry of port 1's route table
\* ever leaves Up, and every key event the joypad poll emits carries the
\* descriptor of an entry of port 0's table; the descriptors the two tables
\* share (Tab and Enter) are emitted, from port 0's entries.
C30_PollEmitsPort0DescriptorsOnly ==
  /\ \A code \in DOMAIN P1_ROUTE_TABLE : P1_ROUTE_TABLE[code].action = "Up"
  /\ (lastOp.op = "worker_iterate" /\ lastOp.event # "HandleKeyEvent") =>
       \A ev \in KeyEventsOf(emitted) :
          ev.key \in TableDescriptors(P0_ROUTE_TABLE)

\* A frame whose poll pressed port 0's select button: a key-down with the Tab
\* descriptor was emitted and port 0's entry is Down, while port 1's select
\* entry, which carries the same descriptor, is still Up.
C30_Witness ==
  /\ lastOp.op = "worker_iterate"
  /\ lastOp.framed
  /\ lastOp.event # "HandleKeyEvent"
  /\ KeyDown(P1_ROUTE_TABLE["ButtonSelect"].descriptor) \in KeyEventsOf(emitted)
  /\ P0_ROUTE_TABLE["ButtonSelect"].action = "Down"
  /\ P1_ROUTE_TABLE["ButtonSelect"].action = "Up"
====
